---- MODULE Spec2Model ----
(***************************************************************************)
(* Model of rl4co's CVRP local-search orchestration                        *)
(* (rl4co/envs/routing/cvrp/local_search.py): the batch dispatcher         *)
(* local_search, the per-item job swapstar, the gateway                    *)
(* Solver.local_search with its file exchange, and the route codec.        *)
(***************************************************************************)
EXTENDS Integers, Sequences, FiniteSets, TLC

(***************************************************************************)
(* Bounds of the model and constants of the program.                       *)
(***************************************************************************)
\* Largest batch size explored (len(subroutes_all)).
MaxBatch == 2
\* random.randint(0, 10000): the upper end of the perturbation.
RandMax == 10000
\* The factor applied to the clock reading.
TimeScale == 10000
\* 2 ** (sizeof(c_int) * 8 - 1) - 1 with a 4-byte c_int.
C_INT_MAX == 2147483647

None == "None"

(***************************************************************************)
(* RouteCodec: get_subroutes, merge_subroutes.  Sequences are 1-indexed    *)
(* here, the arrays of the source 0-indexed.                               *)
(***************************************************************************)
\* np.pad(actions_np, ((0, 0), (1, 1))): one zero before and after a tour.
Pad(tour) == <<0>> \o tour \o <<0>>

\* np.where(path == 0)[0], in increasing order.
RECURSIVE ZeroPositions(_, _)
ZeroPositions(path, from) ==
    IF from > Len(path) THEN <<>>
    ELSE IF path[from] = 0 THEN <<from>> \o ZeroPositions(path, from + 1)
    ELSE ZeroPositions(path, from + 1)

\* A decomposition that leaves the closing depot out (end_with_zero false).
RECURSIVE SubroutesFrom_OpenEnd(_, _, _)
SubroutesFrom_OpenEnd(path, x, k) ==
    IF k + 1 > Len(x) THEN <<>>
    ELSE IF x[k + 1] - x[k] > 1
         THEN <<SubSeq(path, x[k], x[k + 1] - 1)>> \o SubroutesFrom_OpenEnd(path, x, k + 1)
         ELSE SubroutesFrom_OpenEnd(path, x, k + 1)

RECURSIVE SubroutesFrom(_, _, _)
SubroutesFrom(path, x, k) ==
    IF k + 1 > Len(x) THEN <<>>
    ELSE IF x[k + 1] - x[k] > 1
         THEN <<SubSeq(path, x[k], x[k + 1])>> \o SubroutesFrom(path, x, k + 1)
         ELSE SubroutesFrom(path, x, k + 1)

\* get_subroutes(path, end_with_zero=True)
get_subroutes(path) == SubroutesFrom(path, ZeroPositions(path, 1), 1)

Zeros(n) == [c \in 1..n |-> 0]

\* A merge that keeps the closing depot of every subroute.
RECURSIVE MergedNodes_KeepLast(_)
MergedNodes_KeepLast(subroutes) ==
    IF subroutes = <<>> THEN <<>>
    ELSE LET r == Head(subroutes)
         IN (IF Len(r) > 2 THEN r ELSE <<>>)
            \o MergedNodes_KeepLast(Tail(subroutes))

\* The nodes merge_subroutes writes, in order: every subroute longer than 2
\* without its last element.
RECURSIVE MergedNodes(_)
MergedNodes(subroutes) ==
    IF subroutes = <<>> THEN <<>>
    ELSE LET r == Head(subroutes)
         IN (IF Len(r) > 2 THEN SubSeq(r, 1, Len(r) - 1) ELSE <<>>)
            \o MergedNodes(Tail(subroutes))

Ok(v) == [ok |-> TRUE, val |-> v, exc |-> None]
Raise(e) == [ok |-> FALSE, val |-> <<>>, exc |-> e]

\* A merge that cuts what does not fit the row.
merge_subroutes_Truncate(subroutes, length) ==
    LET nodes == MergedNodes(subroutes)
    IN Ok(SubSeq(nodes \o Zeros(length), 1, length))

\* merge_subroutes(subroutes, length).  A slice assignment that does not fit
\* the row raises in numpy (ValueError: could not broadcast).
merge_subroutes(subroutes, length) ==
    LET nodes == MergedNodes(subroutes)
    IN IF Len(nodes) > length THEN Raise("ValueError")
       ELSE Ok(nodes \o Zeros(length - Len(nodes)))

(***************************************************************************)
(* ExchangeProtocol: write_routes, read_routes.  A file is a sequence of   *)
(* lines; a line is its text before the first colon (head, with the route  *)
(* number k) and the colon-separated fields after it, each a sequence of   *)
(* whitespace-separated tokens.  A token is a decimal integer or not.      *)
(***************************************************************************)
Num(v) == [num |-> TRUE, val |-> v]
NotNum == [num |-> FALSE, val |-> 0]

\* A writer that writes every entry of a route, the depots too.
RECURSIVE PositiveTokens_All(_)
PositiveTokens_All(r) ==
    IF r = <<>> THEN <<>>
    ELSE <<Num(Head(r))>> \o PositiveTokens_All(Tail(r))

RECURSIVE PositiveTokens(_)
PositiveTokens(r) ==
    IF r = <<>> THEN <<>>
    ELSE (IF Head(r) > 0 THEN <<Num(Head(r))>> ELSE <<>>) \o PositiveTokens(Tail(r))

\* The line f"Route #{i + 1}: " + ' '.join(str(x) for x in r if x > 0).
RouteLine(k, r) == [head |-> "Route", k |-> k, fields |-> <<PositiveTokens(r)>>]

\* write_routes(routes, filepath): the lines written.
write_routes(routes) == [k \in 1..Len(routes) |-> RouteLine(k, routes[k])]

TokenValues(toks) == [t \in 1..Len(toks) |-> toks[t].val]

\* A reader that does not put the depot in front of the indices.
ParseRouteLine_NoDepot(line) ==
    IF Len(line.fields) = 0 THEN Raise("IndexError")
    ELSE IF \E t \in 1..Len(line.fields[1]) : ~line.fields[1][t].num
         THEN Raise("ValueError")
    ELSE Ok(TokenValues(line.fields[1]) \o <<0>>)

\* One iteration of the loop of read_routes on a stripped line.
ParseRouteLine(line) ==
    IF Len(line.fields) = 0 THEN Raise("IndexError")
    ELSE IF \E t \in 1..Len(line.fields[1]) : ~line.fields[1][t].num
         THEN Raise("ValueError")
    ELSE Ok(<<0>> \o TokenValues(line.fields[1]) \o <<0>>)

\* A reader that skips the lines that are no route lines and reads on.
RECURSIVE ReadLines_SkipOthers(_, _, _)
ReadLines_SkipOthers(lines, at, routes) ==
    IF at > Len(lines) THEN Ok(routes)
    ELSE IF lines[at].head = "Route"
         THEN LET p == ParseRouteLine(lines[at])
              IN IF p.ok THEN ReadLines_SkipOthers(lines, at + 1, Append(routes, p.val))
                 ELSE p
    ELSE ReadLines_SkipOthers(lines, at + 1, routes)

RECURSIVE ReadLines(_, _, _)
ReadLines(lines, at, routes) ==
    IF at > Len(lines) THEN Ok(routes)
    ELSE IF lines[at].head = "Route"
         THEN LET p == ParseRouteLine(lines[at])
              IN IF p.ok THEN ReadLines(lines, at + 1, Append(routes, p.val))
                 ELSE p
    ELSE Ok(routes)

\* A file of the transient exchange directory: the job whose call wrote it
\* last, and its lines.
File(owner, lines) == [exists |-> TRUE, owner |-> owner, lines |-> lines]
Absent == [exists |-> FALSE, owner |-> 0, lines |-> <<>>]

\* read_routes(filepath): open() raises when there is no file.
read_routes(file) ==
    IF ~file.exists THEN Raise("FileNotFoundError")
    ELSE ReadLines(file.lines, 1, <<>>)

(***************************************************************************)
(* ProblemEncoder and the entry of Solver.local_search.                    *)
(***************************************************************************)
Given(v) == [given |-> TRUE, v |-> v]
Missing == [given |-> FALSE, v |-> <<>>]

Column(m, c) == [r \in 1..Len(m) |-> m[r][c]]
Scaled(v, f) == [k \in 1..Len(v) |-> v[k] * f]
NonNegative(v) == \A k \in 1..Len(v) : v[k] >= 0

\* data['demands'] = demands * 1000
DemandScale == 1000
\* data['vehicle_capacity'] = 1000.001, in thousandths.
VehicleCapacityMilli == 1000001

\* np.pad(demands_np, ((0, 0), (1, 0))): the depot's demand, 0, in front.
PadDemand(demand) == <<0>> \o demand

\* The dict swapstar builds from its arguments.
SwapstarData(demands, matrix, positions, routes) ==
    [x_coordinates |-> Given(Column(positions, 1)),
     y_coordinates |-> Given(Column(positions, 2)),
     depot |-> 0,
     demands |-> Scaled(demands, DemandScale),
     num_vehicles |-> Len(routes),
     vehicle_capacity_milli |-> VehicleCapacityMilli,
     distance_matrix |-> Given(matrix),
     service_times |-> Missing]

\* A gateway whose asserts are not executed.
CheckInstance_NoAsserts(data) == None

\* The asserts of Solver.local_search (with the defaults filled in before
\* them): the exception raised, or None when the instance passes.
CheckInstance(data) ==
    LET n_nodes == Len(data.demands)
        service_times == IF data.service_times.given THEN data.service_times.v
                         ELSE Zeros(n_nodes)
        coords == data.x_coordinates.given /\ data.y_coordinates.given
        x_coords == IF coords THEN data.x_coordinates.v ELSE Zeros(n_nodes)
        y_coords == IF coords THEN data.y_coordinates.v ELSE Zeros(n_nodes)
        dist_mtx == data.distance_matrix
    IN IF ~coords /\ ~dist_mtx.given THEN "AssertionError"
       ELSE IF ~(Len(x_coords) = Len(y_coords) /\ Len(y_coords) = Len(service_times)
                 /\ Len(service_times) = n_nodes) THEN "AssertionError"
       ELSE IF ~NonNegative(x_coords) THEN "AssertionError"
       ELSE IF ~NonNegative(y_coords) THEN "AssertionError"
       ELSE IF ~NonNegative(service_times) THEN "AssertionError"
       ELSE IF ~NonNegative(data.demands) THEN "AssertionError"
       ELSE IF ~dist_mtx.given THEN "IndexError"
       ELSE IF Len(dist_mtx.v) = 0 THEN "IndexError"
       ELSE IF Len(dist_mtx.v) # Len(dist_mtx.v[1]) THEN "AssertionError"
       ELSE IF \E r \in 1..Len(dist_mtx.v) : ~NonNegative(dist_mtx.v[r])
            THEN "AssertionError"
       ELSE None

\* A gateway that accepts any depot index.
GatewayValidate_AnyDepot(data) == CheckInstance(data)

\* Solver.local_search from its entry to the last assert: the depot check
\* (raise ValueError("In HGS, the depot location must be 0.")), then the
\* asserts.
GatewayValidate(data) ==
    IF data.depot # 0 THEN "ValueError" ELSE CheckInstance(data)

\* callid = (time.time_ns() * 10000 + random.randint(0, 10000)) % C_INT_MAX
CallId(t, r) == (t * TimeScale + r) % C_INT_MAX

\* Readings of time.time_ns(): two consecutive nanoseconds, as offsets from
\* the first (the call identity depends on the reading only through
\* 10000 * reading modulo C_INT_MAX, so a common offset is immaterial).  The
\* wall clock is read by every thread on its own and has a finite resolution:
\* two jobs may read the same value.
ClockReadings == {0, 1}
\* The two ends of the range random.randint draws from.
RandDraws == {0, RandMax}
CallIds == {CallId(t, r) : t \in ClockReadings, r \in RandDraws}

(***************************************************************************)
(* The inputs explored.                                                    *)
(***************************************************************************)
\* Rows of the actions tensor: tours over two customers, all of one length.
Tours == {<<1, 2, 0>>, <<2, 0, 1>>}

ValidLocs == <<<<0, 0>>, <<1, 0>>, <<0, 1>>>>
ValidDemand == <<1, 1>>
ValidDistances == <<<<0, 1, 1>>, <<1, 0, 2>>, <<1, 2, 0>>>>

Item(tour, locs, demand, distances) ==
    [tour |-> tour, locs |-> locs, demand |-> demand, distances |-> distances]

\* The items of a batch: valid instances, and one with a negative demand.
Items ==
    { Item(t, ValidLocs, ValidDemand, ValidDistances) : t \in Tours }
    \cup { Item(<<1, 2, 0>>, ValidLocs, <<1, -1>>, ValidDistances) }

Batches == UNION { [1..n -> Items] : n \in 1..MaxBatch }

\* A direct call of Solver.local_search(data, routes) by a user of the class.
ApiData(x, y, demands, service_times, distance_matrix, depot) ==
    [x_coordinates |-> x, y_coordinates |-> y, depot |-> depot, demands |-> demands,
     num_vehicles |-> 1, vehicle_capacity_milli |-> VehicleCapacityMilli,
     distance_matrix |-> distance_matrix, service_times |-> service_times]

ValidX == Given(<<0, 1, 0>>)
ValidY == Given(<<0, 0, 1>>)
ValidScaledDemand == <<0, 1000, 1000>>

ApiCalls ==
    { ApiData(ValidX, ValidY, ValidScaledDemand, Missing, Given(ValidDistances), depot) :
        depot \in {0, 1} }
    \cup
    { ApiData(x, ValidY, ValidScaledDemand, Missing, Given(ValidDistances), 0) :
        x \in {Given(<<0, -1, 0>>), Given(<<0, 1>>), Missing} }
    \cup
    { ApiData(ValidX, Given(<<0, 0, -1>>), d, s, Given(ValidDistances), 0) :
        d \in {ValidScaledDemand}, s \in {Missing} }
    \cup
    { ApiData(ValidX, ValidY, d, s, Given(ValidDistances), 0) :
        d \in {<<0, 1000, -1000>>, ValidScaledDemand},
        s \in {Given(<<0, 0, -1>>), Given(<<0, 0>>), Given(<<0, 0, 0>>)} }
    \cup
    { ApiData(ValidX, ValidY, ValidScaledDemand, Missing, m, 0) :
        m \in {Given(<<<<0, 1>>, <<1, 0>>, <<1, 2>>>>),
               Given(<<<<0, 1, 1>>, <<1, 0, -2>>, <<1, 2, 0>>>>),
               Missing} }
    \cup
    { ApiData(Missing, Missing, ValidScaledDemand, Missing, m, 0) :
        m \in {Missing, Given(ValidDistances)} }

(***************************************************************************)
(* State.                                                                  *)
(***************************************************************************)
VARIABLES
    batch,      \* the items of the call of local_search (td and actions)
    lib_ok,     \* whether CDLL(HGS_LIBRARY_FILEPATH) loads the library
    api,        \* the data of a direct call of Solver.local_search
    dpc,        \* where local_search stands
    nsub,       \* the futures submitted so far
    buffer,     \* new_actions, the rows before the trim
    ncol,       \* the rows of new_actions written so far
    out,        \* the matrix local_search returns
    derr,       \* the exception local_search raises
    jobs,       \* the jobs: swapstar calls of the pool, or the direct call
    req_files,  \* /tmp/route-<callid>
    res_files,  \* /tmp/swapstar-result-<callid>
    codec,      \* a tour, a route collection or a file taken through the codec
    enc,        \* an instance taken through the encoding of swapstar
    pool,       \* the ThreadPoolExecutor of local_search and its work items
    td,         \* the TensorDict of an item of the mTSP environment
    actions     \* the actions the mTSP environment was stepped with

dvars == <<dpc, nsub, buffer, ncol, out, derr>>
fvars == <<req_files, res_files>>
\* The variables of the other specifications: the route codec on its own,
\* the encoder on its own, the executor, the mTSP environment.
xvars == <<codec, enc, pool, td, actions>>
\* The variables of a call of local_search or of Solver.local_search.
lsvars == <<batch, lib_ok, api, dpc, nsub, buffer, ncol, out, derr, jobs, req_files, res_files>>
vars == <<batch, lib_ok, api, dpc, nsub, buffer, ncol, out, derr, jobs, req_files, res_files,
          codec, enc, pool, td, actions>>

JobIds == 1..MaxBatch

Unbound == [bound |-> FALSE, val |-> <<>>]
Bound(v) == [bound |-> TRUE, val |-> v]

\* A job that was not submitted.  pc .. exc are the job's control state and
\* locals; caught .. rm_res record what happened in it: the exception swapstar
\* caught, whether the request was written, how the solver call ended, what
\* response read_routes found, how decoding ended, and whether the response
\* was removed.
IdleJob ==
    [pc |-> "idle", caller |-> None, item |-> 0, routes |-> <<>>,
     callid |-> -1, result |-> Unbound, pending |-> None,
     ret |-> <<>>, exc |-> None, caught |-> None,
     wrote |-> FALSE, call |-> None, resp |-> None, decode |-> None,
     rm_res |-> None]

\* subroutes_all[i] = get_subroutes(actions_np[i]) of the padded row.
subroutes_all(i) == get_subroutes(Pad(batch[i].tour))

\* A buffer as wide as the number of locations.
worst_seq_len_Single == Len(batch[1].locs)

\* worst_seq_len = positions_np.shape[1] * 2
worst_seq_len == Len(batch[1].locs) * 2

\* The data dict a job's call of Solver.local_search receives.
JobData(j) ==
    IF jobs[j].caller = "swapstar"
    THEN LET it == batch[jobs[j].item]
         IN SwapstarData(PadDemand(it.demand), it.distances, it.locs, jobs[j].routes)
    ELSE api

(***************************************************************************)
(* The external solver (hgs_library.local_search): it reads the request    *)
(* artifact, then raises, returns without a response artifact, or writes   *)
(* one and returns.  What it writes is not the orchestrator's to decide:   *)
(* the routes it read, the same customers in one route, a file whose first *)
(* line is no route line, or a route line with a token that is no number.  *)
(***************************************************************************)
GarbageLine == [head |-> "Error", k |-> 0, fields |-> <<>>]
BadTokenLine == [head |-> "Route", k |-> 1, fields |-> << <<NotNum>> >>]

RECURSIVE Customers(_)
Customers(lines) ==
    IF lines = <<>> THEN <<>>
    ELSE TokenValues(Head(lines).fields[1]) \o Customers(Tail(lines))

Responses(request) ==
    { <<GarbageLine>>, <<BadTokenLine>> }
    \cup (IF request.exists
          THEN { request.lines, <<RouteLine(1, Customers(request.lines))>> }
          ELSE {})

SolverOutcomes(request) ==
    { [kind |-> "raise", lines |-> <<>>], [kind |-> "nofile", lines |-> <<>>] }
    \cup { [kind |-> "file", lines |-> l] : l \in Responses(request) }

(***************************************************************************)
(* A job: swapstar, and Solver.local_search inside it.                     *)
(***************************************************************************)
\* A swapstar that builds the Solver inside its try.
ConstructFails_Caught(job) ==
    [job EXCEPT !.pc = "done", !.ret = job.routes, !.caught = "OSError"]

\* hgs_solver = Solver(...) stands before swapstar's try: a CDLL that
\* cannot load the library ends the job with the exception.
ConstructFails(job) == [job EXCEPT !.pc = "raised", !.exc = "OSError"]

\* A swapstar that returns no routes from its handler.
SwapstarCatch_Empty(job, e) == [job EXCEPT !.pc = "done", !.ret = <<>>, !.caught = e]

\* swapstar's `except Exception as e: print(e); return routes`.
SwapstarCatch(job, e) == [job EXCEPT !.pc = "done", !.ret = job.routes, !.caught = e]

\* The locals of Solver.local_search end with the call.
Exited(job) == [job EXCEPT !.callid = -1, !.result = Unbound, !.pending = None]

\* How a call of Solver.local_search ends for its caller: with the result,
\* or with the exception e, which swapstar catches and a direct caller gets.
Leave(job, e, result) ==
    IF e = None THEN [Exited(job) EXCEPT !.pc = "done", !.ret = result]
    ELSE IF job.caller = "swapstar" THEN SwapstarCatch(Exited(job), e)
    ELSE [Exited(job) EXCEPT !.pc = "raised", !.exc = e]

\* swapstar up to the last assert of Solver.local_search: the Solver is
\* built, the data dict filled, Solver.local_search entered and the instance
\* checked.
Begin(j) ==
    /\ jobs[j].pc = "start"
    /\ IF jobs[j].caller = "swapstar" /\ ~lib_ok
       THEN jobs' = [jobs EXCEPT ![j] = ConstructFails(jobs[j])]
       ELSE LET e == GatewayValidate(JobData(j))
            IN IF e # None
               THEN jobs' = [jobs EXCEPT ![j] = Leave(jobs[j], e, <<>>)]
               ELSE jobs' = [jobs EXCEPT ![j].pc = "write"]
    /\ UNCHANGED <<xvars, batch, lib_ok, api, dvars, fvars>>

\* The call identity is drawn and write_routes(routes, tmppath) writes
\* /tmp/route-<callid>.
WriteRequest(j) ==
    /\ jobs[j].pc = "write"
    /\ \E t \in ClockReadings, r \in RandDraws :
          /\ req_files' = [req_files EXCEPT
                              ![CallId(t, r)] = File(j, write_routes(jobs[j].routes))]
          /\ jobs' = [jobs EXCEPT ![j].pc = "call", ![j].wrote = TRUE,
                                  ![j].callid = CallId(t, r)]
    /\ UNCHANGED <<xvars, batch, lib_ok, api, dvars, res_files>>

\* self._local_search(...): the solver reads route-<callid> and ends.  An
\* exception is swallowed by `except: pass` and leaves result unbound.
SolverCall(j) ==
    /\ jobs[j].pc = "call"
    /\ \E o \in SolverOutcomes(req_files[jobs[j].callid]) :
          /\ jobs' = [jobs EXCEPT
                         ![j].pc = IF o.kind = "raise" THEN "finally" ELSE "read",
                         ![j].call = IF o.kind = "raise" THEN "raised" ELSE "returned"]
          /\ res_files' = IF o.kind = "file"
                          THEN [res_files EXCEPT ![jobs[j].callid] = File(j, o.lines)]
                          ELSE res_files
    /\ UNCHANGED <<xvars, batch, lib_ok, api, dvars, req_files>>

\* A gateway that removes the response whether or not decoding succeeded.
AfterRead_AlwaysRemove(r) == "rm_result"

\* A gateway that reads the response again until it decodes.
AfterRead_Retry(r) == IF r.ok THEN "rm_result" ELSE "read"

\* try / except / else of Solver.local_search: where control goes after
\* read_routes returned (the else clause) or raised (except: pass).
AfterRead(r) == IF r.ok THEN "rm_result" ELSE "finally"

\* A response file that is not what the protocol expects at its start: its
\* first line is no route line, or a route line of its leading run cannot
\* be parsed.  (Lines after the leading run of route lines are a trailer.)
Malformed(file) ==
    /\ file.exists
    /\ Len(file.lines) > 0
    /\ \/ file.lines[1].head # "Route"
       \/ ~ReadLines(file.lines, 1, <<>>).ok

ResponseKind(file) ==
    IF ~file.exists THEN "missing"
    ELSE IF Malformed(file) THEN "malformed"
    ELSE "wellformed"

\* result = read_routes(resultpath)
ReadResponse(j) ==
    /\ jobs[j].pc = "read"
    /\ LET r == read_routes(res_files[jobs[j].callid])
       IN jobs' = [jobs EXCEPT ![j].pc = AfterRead(r),
                               ![j].resp = ResponseKind(res_files[jobs[j].callid]),
                               ![j].decode = IF r.ok THEN "ok" ELSE r.exc,
                               ![j].result = IF r.ok THEN Bound(r.val) ELSE Unbound]
    /\ UNCHANGED <<xvars, batch, lib_ok, api, dvars, fvars>>

\* else: os.remove(resultpath), which raises when there is no such file.
RemoveResponse(j) ==
    /\ jobs[j].pc = "rm_result"
    /\ LET there == res_files[jobs[j].callid].exists
       IN /\ jobs' = [jobs EXCEPT
                         ![j].pc = "finally",
                         ![j].rm_res = IF there THEN "removed" ELSE "raised",
                         ![j].pending = IF there THEN None ELSE "FileNotFoundError"]
          /\ res_files' = [res_files EXCEPT ![jobs[j].callid] = Absent]
    /\ UNCHANGED <<xvars, batch, lib_ok, api, dvars, req_files>>

\* A gateway that removes the request only when the try body succeeded.
finally_remove_OnSuccess(job, file) == IF job.result.bound THEN Absent ELSE file

\* finally: os.remove(tmppath): the request file after the clause.
finally_remove(job, file) == Absent

\* finally: os.remove(tmppath), then `return result`, and the caller's
\* handling of what comes out.  A remove of a file that is not there raises;
\* a result that was never bound raises UnboundLocalError at the return.
Finally(j) ==
    /\ jobs[j].pc = "finally"
    /\ LET id == jobs[j].callid
           e == IF ~req_files[id].exists THEN "FileNotFoundError"
                ELSE IF jobs[j].pending # None THEN jobs[j].pending
                ELSE IF ~jobs[j].result.bound THEN "UnboundLocalError"
                ELSE None
       IN /\ req_files' = [req_files EXCEPT ![id] = finally_remove(jobs[j], req_files[id])]
          /\ jobs' = [jobs EXCEPT ![j] = Leave(jobs[j], e, jobs[j].result.val)]
    /\ UNCHANGED <<xvars, batch, lib_ok, api, dvars, res_files>>

JobStep(j) ==
    \/ Begin(j)
    \/ WriteRequest(j)
    \/ SolverCall(j)
    \/ ReadResponse(j)
    \/ RemoveResponse(j)
    \/ Finally(j)

(***************************************************************************)
(* BatchDispatcher: local_search.                                          *)
(***************************************************************************)
\* A submit loop that passes every job the first item's arrays.
SubmitIndex_Stale(i) == 1

\* The batch index whose arrays the i-th submit passes to swapstar.
SubmitIndex(i) == i

\* executor.submit(swapstar, demands_np[i], distances_np[i], positions_np[i],
\* subroutes_all[i], count=max_iterations); futures.append((i, future))
Submit ==
    /\ dpc = "submit"
    /\ nsub < Len(batch)
    /\ nsub' = nsub + 1
    /\ jobs' = [jobs EXCEPT ![nsub + 1] =
                  [IdleJob EXCEPT !.pc = "start", !.caller = "swapstar",
                                  !.item = SubmitIndex(nsub + 1),
                                  !.routes = subroutes_all(SubmitIndex(nsub + 1))]]
    /\ UNCHANGED <<xvars, batch, lib_ok, api, dpc, buffer, ncol, out, derr, fvars>>

\* A dispatcher that takes a submitted job for a finished one.
Finished_Submitted(j) == jobs[j].pc # "idle"

\* future.done(): the job returned or raised.
Finished(j) == jobs[j].pc \in {"done", "raised"}

\* The end of the `with` block waits for every submitted job; then
\* new_actions = np.zeros((batch_size, worst_seq_len)).
Join ==
    /\ dpc = "submit"
    /\ nsub = Len(batch)
    /\ \A j \in 1..nsub : Finished(j)
    /\ dpc' = "collect"
    /\ buffer' = [i \in 1..Len(batch) |-> Zeros(worst_seq_len)]
    /\ UNCHANGED <<xvars, batch, lib_ok, api, nsub, ncol, out, derr, jobs, fvars>>

\* new_actions[i] = merge_subroutes(future.result(), worst_seq_len):
\* future.result() raises what the job raised.
Collect ==
    /\ dpc = "collect"
    /\ ncol < Len(batch)
    /\ LET i == ncol + 1
           row == merge_subroutes(jobs[i].ret, worst_seq_len)
       IN IF jobs[i].pc = "raised"
          THEN /\ dpc' = "failed"
               /\ derr' = jobs[i].exc
               /\ UNCHANGED <<buffer, ncol>>
          ELSE IF ~row.ok
          THEN /\ dpc' = "failed"
               /\ derr' = row.exc
               /\ UNCHANGED <<buffer, ncol>>
          ELSE /\ buffer' = [buffer EXCEPT ![i] = row.val]
               /\ ncol' = ncol + 1
               /\ UNCHANGED <<dpc, derr>>
    /\ UNCHANGED <<xvars, batch, lib_ok, api, nsub, out, jobs, fvars>>

\* np.where(new_actions != 0)[1]: the columns (0-indexed) of the non-zeros.
NonZeroColumns(rows) ==
    { c - 1 : c \in { c \in 1..Len(rows[1]) : \E i \in 1..Len(rows) : rows[i][c] # 0 } }

Max(S) == CHOOSE m \in S : \A x \in S : x <= m

\* A trim that cuts every row after its own last non-zero column.
Slice_PerRow(rows, max_pos) ==
    [i \in 1..Len(rows) |->
        SubSeq(rows[i], 2, Max({0} \cup { c \in 1..Len(rows[i]) : rows[i][c] # 0 }))]

\* new_actions[:, 1: max_pos + 1]
Slice(rows, max_pos) == [i \in 1..Len(rows) |-> SubSeq(rows[i], 2, max_pos + 1)]

\* max_pos = np.max(np.where(new_actions != 0)[1]), which raises on an
\* empty array; then the slice and the return.
Trim ==
    /\ dpc = "collect"
    /\ ncol = Len(batch)
    /\ IF NonZeroColumns(buffer) = {}
       THEN /\ dpc' = "failed"
            /\ derr' = "ValueError"
            /\ out' = out
       ELSE /\ dpc' = "returned"
            /\ out' = Slice(buffer, Max(NonZeroColumns(buffer)))
            /\ derr' = derr
    /\ UNCHANGED <<xvars, batch, lib_ok, api, nsub, buffer, ncol, jobs, fvars>>

(***************************************************************************)
(* Specifications.                                                         *)
(***************************************************************************)
NoFiles == [id \in CallIds |-> Absent]

\* Nothing else is going on: no tour is in the codec, no instance in the
\* encoder, the executor has no work item and no environment was reset.
NoOther ==
    /\ codec = None
    /\ enc = None
    /\ pool = None
    /\ td = None
    /\ actions = <<>>

\* A call of local_search on a batch.
Init ==
    /\ batch \in Batches
    /\ lib_ok \in BOOLEAN
    /\ api = ApiData(ValidX, ValidY, ValidScaledDemand, Missing, Given(ValidDistances), 0)
    /\ dpc = "submit"
    /\ nsub = 0
    /\ buffer = <<>>
    /\ ncol = 0
    /\ out = <<>>
    /\ derr = None
    /\ jobs = [j \in JobIds |-> IdleJob]
    /\ req_files = NoFiles
    /\ res_files = NoFiles
    /\ NoOther

Next ==
    \/ Submit
    \/ Join
    \/ Collect
    \/ Trim
    \/ \E j \in JobIds : JobStep(j)

Spec == Init /\ [][Next]_vars

\* A call of local_search whose threads are scheduled: the main thread and
\* every worker thread that can take a step eventually takes one, and the
\* external solver ends every call within its own iteration budget (neither
\* the dispatcher nor the gateway has a timeout of its own).
SpecLive ==
    /\ Spec
    /\ WF_vars(Submit \/ Join \/ Collect \/ Trim)
    /\ \A j \in JobIds : WF_vars(JobStep(j))

\* The routes handed to a direct call: one vehicle visiting both customers.
ApiRoutes == <<<<0, 1, 2, 0>>>>

\* A direct call of Solver.local_search on an already built Solver.
InitGateway ==
    /\ batch = <<>>
    /\ lib_ok = TRUE
    /\ api \in ApiCalls
    /\ dpc = "direct"
    /\ nsub = 0
    /\ buffer = <<>>
    /\ ncol = 0
    /\ out = <<>>
    /\ derr = None
    /\ jobs = [j \in JobIds |->
                 IF j = 1 THEN [IdleJob EXCEPT !.pc = "start", !.caller = "direct",
                                               !.routes = ApiRoutes]
                 ELSE IdleJob]
    /\ req_files = NoFiles
    /\ res_files = NoFiles
    /\ NoOther

NextGateway == \E j \in JobIds : JobStep(j)

SpecGateway == InitGateway /\ [][NextGateway]_vars

(***************************************************************************)
(* The route codec on its own: a tour is decomposed by get_subroutes and   *)
(* recomposed by merge_subroutes into a row of the tour's length.          *)
(***************************************************************************)
\* Longest tour explored, and the largest node index in it.
MaxTourLen == 6
MaxNode == 2

\* Rows of node indices: any sequence, with or without leading and trailing
\* depot, with repeated depots and with repeated customers.
CodecTours == UNION { [1..n -> 0..MaxNode] : n \in 1..MaxTourLen }

\* No call of local_search or of Solver.local_search is going on.
NoLocalSearch ==
    /\ batch = <<>>
    /\ lib_ok = TRUE
    /\ api = ApiData(ValidX, ValidY, ValidScaledDemand, Missing, Given(ValidDistances), 0)
    /\ dpc = "off"
    /\ nsub = 0
    /\ buffer = <<>>
    /\ ncol = 0
    /\ out = <<>>
    /\ derr = None
    /\ jobs = [j \in JobIds |-> IdleJob]
    /\ req_files = NoFiles
    /\ res_files = NoFiles

InitCodec ==
    /\ NoLocalSearch
    /\ codec \in { [pc |-> "tour", tour |-> t, subroutes |-> <<>>, merged |-> Ok(<<>>)] :
                     t \in CodecTours }
    /\ enc = None
    /\ pool = None
    /\ td = None
    /\ actions = <<>>

\* subroutes = get_subroutes(tour)
Decompose ==
    /\ codec.pc = "tour"
    /\ codec' = [codec EXCEPT !.pc = "subroutes", !.subroutes = get_subroutes(codec.tour)]
    /\ UNCHANGED <<lsvars, enc, pool, td, actions>>

\* merge_subroutes(subroutes, len(tour))
Merge ==
    /\ codec.pc = "subroutes"
    /\ codec' = [codec EXCEPT !.pc = "merged",
                              !.merged = merge_subroutes(codec.subroutes, Len(codec.tour))]
    /\ UNCHANGED <<lsvars, enc, pool, td, actions>>

NextCodec ==
    \/ Decompose
    \/ Merge

SpecCodec == InitCodec /\ [][NextCodec]_vars

(***************************************************************************)
(* The encoder on its own: the demand row of an instance whose vehicles    *)
(* have a given capacity is padded by local_search and scaled by swapstar. *)
(* Neither function reads the capacity of the instance.                    *)
(***************************************************************************)
\* Largest demand of a customer and largest vehicle capacity explored.
MaxDemand == 6
MaxCapacity == 10

InitEncoder ==
    /\ NoLocalSearch
    /\ codec = None
    /\ enc \in { [pc |-> "instance", demand |-> d, capacity |-> c,
                  data |-> SwapstarData(<<>>, <<>>, <<>>, <<>>)] :
                   d \in [1..2 -> 0..MaxDemand], c \in 1..MaxCapacity }
    /\ pool = None
    /\ td = None
    /\ actions = <<>>

\* demands_np = np.pad(td["demand"], ((0, 0), (1, 0))), then the data dict
\* of swapstar(demands_np[i], distances_np[i], positions_np[i], subroutes).
Encode ==
    /\ enc.pc = "instance"
    /\ enc' = [enc EXCEPT !.pc = "encoded",
                          !.data = SwapstarData(PadDemand(enc.demand), ValidDistances,
                                                ValidLocs, get_subroutes(Pad(<<1, 2, 0>>)))]
    /\ UNCHANGED <<lsvars, codec, pool, td, actions>>

\* The solver is handed the data.
Handover ==
    /\ enc.pc = "encoded"
    /\ enc' = [enc EXCEPT !.pc = "handed"]
    /\ UNCHANGED <<lsvars, codec, pool, td, actions>>

NextEncoder ==
    \/ Encode
    \/ Handover

SpecEncoder == InitEncoder /\ [][NextEncoder]_vars

(***************************************************************************)
(* The executor of local_search: `with ThreadPoolExecutor() as executor`   *)
(* and the submit loop.  A work item is queued by submit, taken by a       *)
(* worker thread in the order of submission, and run to its end by that    *)
(* thread: swapstar up to the external solver call, the call, and the rest *)
(* of swapstar.  The threads of the executor are at most max_workers.      *)
(***************************************************************************)
\* Largest batch submitted to the executor, and largest os.cpu_count().
PoolBatch == 6
MaxCpu == 2

\* ThreadPoolExecutor(max_workers=None): min(32, (os.cpu_count() or 1) + 4).
max_workers(cpu_count) == IF cpu_count + 4 < 32 THEN cpu_count + 4 ELSE 32

PoolJobs == 1..PoolBatch

InitPool ==
    /\ NoLocalSearch
    /\ codec = None
    /\ enc = None
    /\ pool \in { [cpu_count |-> c, n |-> n, submitted |-> 0, joined |-> FALSE,
                   phase |-> [j \in PoolJobs |-> "none"]] :
                    c \in 1..MaxCpu, n \in 1..PoolBatch }
    /\ td = None
    /\ actions = <<>>

\* The work items a worker thread is running.
Busy == { j \in PoolJobs : pool.phase[j] \in {"running", "blocked", "after"} }

\* An executor that starts a thread for every work item.
WorkerFree_Unbounded(busy, workers) == TRUE

\* A thread is idle, or the executor may start one more.
WorkerFree(busy, workers) == busy < workers

\* executor.submit(swapstar, ...): the work item is put on the queue.
PoolSubmit ==
    /\ ~pool.joined
    /\ pool.submitted < pool.n
    /\ pool' = [pool EXCEPT !.submitted = pool.submitted + 1,
                            !.phase[pool.submitted + 1] = "queued"]
    /\ UNCHANGED <<lsvars, codec, enc, td, actions>>

\* A worker thread takes the oldest work item of the queue and calls
\* swapstar.
WorkerTake(j) ==
    /\ pool.phase[j] = "queued"
    /\ \A k \in PoolJobs : pool.phase[k] = "queued" => j <= k
    /\ WorkerFree(Cardinality(Busy), max_workers(pool.cpu_count))
    /\ pool' = [pool EXCEPT !.phase[j] = "running"]
    /\ UNCHANGED <<lsvars, codec, enc, td, actions>>

\* The job enters the external solver call, which is synchronous.
EnterCall(j) ==
    /\ pool.phase[j] = "running"
    /\ pool' = [pool EXCEPT !.phase[j] = "blocked"]
    /\ UNCHANGED <<lsvars, codec, enc, td, actions>>

\* The external solver call returns or raises.
LeaveCall(j) ==
    /\ pool.phase[j] = "blocked"
    /\ pool' = [pool EXCEPT !.phase[j] = "after"]
    /\ UNCHANGED <<lsvars, codec, enc, td, actions>>

\* swapstar returns: the future is done and the thread is idle again.
JobReturn(j) ==
    /\ pool.phase[j] = "after"
    /\ pool' = [pool EXCEPT !.phase[j] = "done"]
    /\ UNCHANGED <<lsvars, codec, enc, td, actions>>

\* The end of the with block: shutdown(wait=True) returns when every work
\* item has run.
PoolJoin ==
    /\ ~pool.joined
    /\ pool.submitted = pool.n
    /\ \A j \in 1..pool.n : pool.phase[j] = "done"
    /\ pool' = [pool EXCEPT !.joined = TRUE]
    /\ UNCHANGED <<lsvars, codec, enc, td, actions>>

NextPool ==
    \/ PoolSubmit
    \/ PoolJoin
    \/ \E j \in PoolJobs :
          \/ WorkerTake(j)
          \/ EnterCall(j)
          \/ LeaveCall(j)
          \/ JobReturn(j)

SpecPool == InitPool /\ [][NextPool]_vars

(***************************************************************************)
(* The mTSP environment (rl4co/envs/routing/mtsp/env.py): one item of the  *)
(* batch, from _reset through the calls of _step to _get_reward.  Node 0   *)
(* is the depot; sequences are 1-indexed here, so node k is entry k + 1.   *)
(***************************************************************************)
\* Most cities, largest coordinate, most agents, and most steps taken after
\* done (while other items of the batch are still being decoded).
MaxCities == 3
MaxCoord == 2
MaxAgents == 3
MaxExtraSteps == 2

\* The locations explored lie on the x axis at integer coordinates.
LocsOf(xs) == [k \in 1..Len(xs) |-> <<xs[k], 0>>]

MtspLocs ==
    { LocsOf(xs) : xs \in UNION { [1..n -> 0..MaxCoord] : n \in 2..(MaxCities + 1) } }

\* The square root of a perfect square.
Sqrt(n) == CHOOSE r \in 0..n : r * r = n

\* get_distance(x, y) = (x - y).norm(p=2, dim=-1)
get_distance(x, y) ==
    Sqrt((x[1] - y[1]) * (x[1] - y[1]) + (x[2] - y[2]) * (x[2] - y[2]))

\* gather_by_index(td["locs"], node)
gather_by_index(locs, node) == locs[node + 1]

\* _reset(td): the TensorDict of a fresh episode (done is False until the
\* first _step sets it).
reset(locs, num_agents) ==
    [locs |-> locs,
     first_node |-> 0,
     current_node |-> 0,
     num_agents |-> num_agents,
     max_subtour_length |-> 0,
     current_length |-> 0,
     agent_idx |-> 0,
     i |-> 0,
     action_mask |-> [k \in 1..Len(locs) |-> TRUE],
     reward |-> 0,
     done |-> FALSE,
     result |-> Missing]

InitMTSP ==
    /\ NoLocalSearch
    /\ codec = None
    /\ enc = None
    /\ pool = None
    /\ td \in { reset(l, m) : l \in MtspLocs, m \in 1..MaxAgents }
    /\ actions = <<>>

\* A step that leaves the visited node available.
Visit_Keep(action_mask, node) == action_mask

\* td["action_mask"].scatter(-1, current_node, 0)
Visit(action_mask, node) == [action_mask EXCEPT ![node + 1] = FALSE]

\* A depot that stays available until agent_idx reaches num_agents.
DepotAvailable_OneMore(current_node, agent_idx, num_agents) ==
    current_node # 0 /\ agent_idx < num_agents

\* torch.logical_and(current_node != 0, td["agent_idx"] < td["num_agents"] - 1)
DepotAvailable(current_node, agent_idx, num_agents) ==
    current_node # 0 /\ agent_idx < num_agents - 1

\* The steps taken since the last city was selected.
RECURSIVE TrailingDepots(_)
TrailingDepots(as) ==
    IF as = <<>> \/ as[Len(as)] # 0 THEN 0
    ELSE 1 + TrailingDepots(SubSeq(as, 1, Len(as) - 1))

\* _step(td) with td["action"] = a, an action the action mask allows.
Step ==
    /\ ~td.result.given
    /\ td.done => TrailingDepots(actions) < MaxExtraSteps
    /\ \E a \in 0..(Len(td.locs) - 1) :
          /\ td.action_mask[a + 1]
          /\ LET is_first_action == td.i = 0
                 current_node == a
                 first_node == IF is_first_action THEN current_node ELSE td.first_node
                 cur_loc == gather_by_index(td.locs, current_node)
                 prev_loc == gather_by_index(td.locs, td.current_node)
                 depot_loc == td.locs[1]
                 cur_agent_idx == td.agent_idx + (IF current_node = 0 THEN 1 ELSE 0)
                 visited == Visit(td.action_mask, current_node)
                 available0 == [visited EXCEPT ![1] =
                                   DepotAvailable(current_node, td.agent_idx, td.num_agents)]
                 done == \A k \in 2..Len(available0) : ~available0[k]
                 available == [available0 EXCEPT ![1] = done \/ available0[1]]
                 length1 == td.current_length + get_distance(cur_loc, prev_loc)
                 length2 == IF done THEN length1 + get_distance(cur_loc, depot_loc)
                            ELSE length1
                 max_subtour_length == IF length2 > td.max_subtour_length THEN length2
                                       ELSE td.max_subtour_length
                 current_length == length2 * (IF cur_agent_idx = td.agent_idx THEN 1 ELSE 0)
                 reward == -max_subtour_length
             IN /\ td' = [td EXCEPT !.max_subtour_length = max_subtour_length,
                                    !.current_length = current_length,
                                    !.agent_idx = cur_agent_idx,
                                    !.first_node = first_node,
                                    !.current_node = current_node,
                                    !.i = td.i + 1,
                                    !.action_mask = available,
                                    !.reward = reward,
                                    !.done = done]
                /\ actions' = Append(actions, a)
    /\ UNCHANGED <<lsvars, codec, enc, pool>>

\* _get_reward(td, actions) with cost_type "minmax", once the episode is
\* over: td["reward"].
GetReward ==
    /\ td.done
    /\ ~td.result.given
    /\ td' = [td EXCEPT !.result = Given(td.reward)]
    /\ UNCHANGED <<lsvars, codec, enc, pool, actions>>

NextMTSP ==
    \/ Step
    \/ GetReward

SpecMTSP == InitMTSP /\ [][NextMTSP]_vars

(***************************************************************************)
(* merge_subroutes on its own: any collection of subroutes, merged into a  *)
(* row of any length.                                                      *)
(***************************************************************************)
\* Largest node index in a subroute, longest subroute, most subroutes of a
\* collection and longest row explored.
MaxMergeNode == 1
MaxRouteLen == 4
MaxRoutes == 2
MaxRowLen == 8

MergeRoutes == UNION { [1..n -> 0..MaxMergeNode] : n \in 0..MaxRouteLen }

MergeCollections == UNION { [1..n -> MergeRoutes] : n \in 0..MaxRoutes }

InitMerge ==
    /\ NoLocalSearch
    /\ codec \in { [pc |-> "collection", subroutes |-> c, length |-> l, merged |-> Ok(<<>>)] :
                     c \in MergeCollections, l \in 0..MaxRowLen }
    /\ enc = None
    /\ pool = None
    /\ td = None
    /\ actions = <<>>

\* merge_subroutes(subroutes, length)
MergeInto ==
    /\ codec.pc = "collection"
    /\ codec' = [codec EXCEPT !.pc = "merged",
                              !.merged = merge_subroutes(codec.subroutes, codec.length)]
    /\ UNCHANGED <<lsvars, enc, pool, td, actions>>

NextMerge == MergeInto

SpecMerge == InitMerge /\ [][NextMerge]_vars

(***************************************************************************)
(* The exchange protocol on its own: a collection of routes written by     *)
(* write_routes, and a file (one that write_routes wrote, or any other)    *)
(* read by read_routes.                                                    *)
(***************************************************************************)
\* Most lines of a file explored.
MaxLines == 3

\* A line that starts with Route and has no colon.
NoColonLine == [head |-> "Route", k |-> 1, fields |-> <<>>]

\* The lines of a file: route lines as write_routes writes them, a line that
\* is no route line, and route lines that do not parse.
ExchangeLines ==
    { RouteLine(1, r) : r \in MergeRoutes } \cup { GarbageLine, BadTokenLine, NoColonLine }

ExchangeFiles ==
    { File(0, l) : l \in UNION { [1..n -> ExchangeLines] : n \in 0..MaxLines } }

InitExchange ==
    /\ NoLocalSearch
    /\ codec \in
          { [pc |-> "routes", routes |-> c, written |-> FALSE, file |-> Absent,
             result |-> Ok(<<>>)] : c \in MergeCollections }
          \cup
          { [pc |-> "file", routes |-> <<>>, written |-> FALSE, file |-> f,
             result |-> Ok(<<>>)] : f \in ExchangeFiles \cup {Absent} }
    /\ enc = None
    /\ pool = None
    /\ td = None
    /\ actions = <<>>

\* write_routes(routes, filepath)
WriteOut ==
    /\ codec.pc = "routes"
    /\ codec' = [codec EXCEPT !.pc = "file", !.written = TRUE,
                              !.file = File(0, write_routes(codec.routes))]
    /\ UNCHANGED <<lsvars, enc, pool, td, actions>>

\* read_routes(filepath)
ReadIn ==
    /\ codec.pc = "file"
    /\ codec' = [codec EXCEPT !.pc = "read", !.result = read_routes(codec.file)]
    /\ UNCHANGED <<lsvars, enc, pool, td, actions>>

NextExchange ==
    \/ WriteOut
    \/ ReadIn

SpecExchange == InitExchange /\ [][NextExchange]_vars

(***************************************************************************)
(* Claims.                                                                 *)
(***************************************************************************)
\* What local_search writes into a row for the return value ret of a job.
RowOf(ret) == merge_subroutes(ret, worst_seq_len).val

\* C1: for a batch of N tours, whatever the interleaving and the order in
\* which the jobs complete, every row i that local_search has written (and
\* so every row of what it returns) is the merge of the return value of the
\* job that was submitted with item i's arrays and item i's subroutes; the
\* returned row is that row between column 1 and the trim column.
C1_RowFromOwnJob ==
    /\ dpc \in {"collect", "returned"} =>
         \A i \in 1..ncol :
            \E j \in 1..nsub :
               /\ jobs[j].item = i
               /\ jobs[j].routes = subroutes_all(i)
               /\ Finished(j)
               /\ buffer[i] = RowOf(jobs[j].ret)
    /\ dpc = "returned" =>
         /\ ncol = Len(batch)
         /\ \A i \in 1..Len(batch) : out[i] = SubSeq(buffer[i], 2, Len(out[i]) + 1)

\* A batch of two was returned and the two jobs did not return the same routes.
C1_Witness ==
    /\ dpc = "returned"
    /\ Len(batch) = 2
    /\ jobs[1].ret # jobs[2].ret
    /\ jobs[2].ret # jobs[2].routes

\* C2: swapstar never propagates a failure of the solver call or of the
\* decoding: when the external call raised, or the response artifact was
\* missing or malformed, swapstar returns exactly the routes it was given.
C2_FallbackOnFailure ==
    \A j \in JobIds :
       (/\ jobs[j].caller = "swapstar"
        /\ Finished(j)
        /\ \/ jobs[j].call = "raised"
           \/ jobs[j].resp \in {"missing", "malformed"})
       => /\ jobs[j].pc = "done"
          /\ jobs[j].ret = jobs[j].routes

\* C3: when the external solver call of item i raised, the row written for
\* item i is merge_subroutes(get_subroutes(padded tour i), worst_seq_len),
\* the row of the unimproved tour, and the returned row is that row between
\* column 1 and the trim column.
C3_FailedCallFallsBack ==
    LET fallback(i) == merge_subroutes(get_subroutes(Pad(batch[i].tour)),
                                       worst_seq_len).val
    IN \A i \in 1..ncol :
          jobs[i].call = "raised" =>
             /\ buffer[i] = fallback(i)
             /\ dpc = "returned" => out[i] = SubSeq(fallback(i), 2, Len(out[i]) + 1)

\* local_search returned, the solver call of some item had raised, and its
\* row holds its tour's customers.
C3_Witness ==
    /\ dpc = "returned"
    /\ \E i \in 1..Len(batch) :
          /\ jobs[i].call = "raised"
          /\ \E c \in 1..Len(out[i]) : out[i][c] # 0

\* A job between the drawing of its call identity and the exit of its
\* gateway call.
InFlight(j) == jobs[j].pc \in {"call", "read", "rm_result", "finally"}

\* C4: no two in-flight jobs have the same call identity, hence never the
\* same request path or response path.
C4_DistinctCallIds ==
    \A j, k \in JobIds :
       (j # k /\ InFlight(j) /\ InFlight(k)) => jobs[j].callid # jobs[k].callid

\* C5: once a gateway call that wrote its request artifact has exited,
\* by whichever path (solver call succeeded, solver call raised, decode
\* raised), no request artifact written by that call exists.
C5_RequestRemovedOnExit ==
    \A j \in JobIds :
       (Finished(j) /\ jobs[j].wrote) =>
          \A id \in CallIds : ~(req_files[id].exists /\ req_files[id].owner = j)

\* A call has exited after a solver call that raised, another after a
\* decode that raised, both having written their requests.
C5_Witness ==
    \E j, k \in JobIds :
       /\ Finished(j) /\ jobs[j].wrote /\ jobs[j].call = "raised"
       /\ Finished(k) /\ jobs[k].wrote /\ jobs[k].decode \notin {None, "ok"}

\* C6: the gateway removes the response artifact exactly when the solver
\* call and the decode both succeeded: a call that has exited attempted the
\* removal if and only if its solver call returned and its decode succeeded;
\* after a call that returned a result no response artifact written by its
\* solver call exists.
C6_ResponseRemovedIffDecoded ==
    \A j \in JobIds :
       (Finished(j) /\ jobs[j].wrote) =>
          /\ (jobs[j].rm_res # None) <=>
                (jobs[j].call = "returned" /\ jobs[j].decode = "ok")
          /\ (jobs[j].pc = "done" /\ jobs[j].caught = None) =>
                /\ jobs[j].rm_res = "removed"
                /\ \A id \in CallIds :
                      ~(res_files[id].exists /\ res_files[id].owner = j)

\* One call has exited with a result and its response removed, while the
\* response of a call whose decode raised is still there.
C6_Witness ==
    \E j \in JobIds :
       /\ Finished(j)
       /\ jobs[j].rm_res = "removed"
       /\ jobs[j].caught = None
       /\ \E k \in JobIds, id \in CallIds :
             /\ Finished(k)
             /\ jobs[k].decode = "ValueError"
             /\ jobs[k].rm_res = None
             /\ res_files[id].exists
             /\ res_files[id].owner = k

\* C7: an improvement failure is never surfaced as a failure of the batch:
\* local_search raises only when the solver library could not be loaded.
C7_NoBatchFailure == dpc = "failed" => ~lib_ok

\* The validation rules: a negative coordinate, service time or demand,
\* vector lengths that disagree, a distance matrix that is not square or has
\* a negative entry.  (Coordinates count when both vectors are supplied.)
ViolatesRule(data) ==
    LET coords == data.x_coordinates.given /\ data.y_coordinates.given
        n == Len(data.demands)
    IN \/ coords /\ ~NonNegative(data.x_coordinates.v)
       \/ coords /\ ~NonNegative(data.y_coordinates.v)
       \/ coords /\ (Len(data.x_coordinates.v) # n \/ Len(data.y_coordinates.v) # n)
       \/ data.service_times.given /\ ~NonNegative(data.service_times.v)
       \/ data.service_times.given /\ Len(data.service_times.v) # n
       \/ ~NonNegative(data.demands)
       \/ /\ data.distance_matrix.given
          /\ \/ \E r \in 1..Len(data.distance_matrix.v) :
                   Len(data.distance_matrix.v[r]) # Len(data.distance_matrix.v)
             \/ \E r \in 1..Len(data.distance_matrix.v) :
                   ~NonNegative(data.distance_matrix.v[r])

NothingDispatched(j) ==
    /\ jobs[j].callid = -1
    /\ ~jobs[j].wrote
    /\ jobs[j].call = None
    /\ req_files = NoFiles
    /\ res_files = NoFiles

\* C8: a call of Solver.local_search on an instance (with depot 0) that
\* violates a validation rule fails with an AssertionError before dispatch:
\* no call identity is drawn, no request artifact is written and the
\* external solver is not invoked.
C8_ValidationBeforeDispatch ==
    (dpc = "direct" /\ api.depot = 0 /\ ViolatesRule(api)) =>
       /\ jobs[1].pc \in {"start", "raised"}
       /\ jobs[1].pc = "raised" => jobs[1].exc = "AssertionError"
       /\ NothingDispatched(1)

\* The call on an instance with a negative demand has failed.
C8_Witness ==
    /\ dpc = "direct"
    /\ ~NonNegative(api.demands)
    /\ jobs[1].pc = "raised"

\* C9: a call of Solver.local_search with a depot index other than 0 ends
\* with a ValueError for its caller, with no result, no request artifact
\* written and no solver call made.
C9_DepotFailsFast ==
    (dpc = "direct" /\ api.depot # 0) =>
       /\ jobs[1].pc \in {"start", "raised"}
       /\ jobs[1].pc = "raised" => jobs[1].exc = "ValueError"
       /\ jobs[1].ret = <<>>
       /\ NothingDispatched(1)

\* The call with depot 1 has failed.
C9_Witness ==
    /\ dpc = "direct"
    /\ api.depot = 1
    /\ jobs[1].pc = "raised"

\* C10: when the solver library cannot be loaded, no job returns routes (the
\* failure is not turned into the fallback), no row is written, and
\* local_search does not return: it ends with the OSError.
C10_LoadFailureFailsRun ==
    ~lib_ok =>
       /\ \A j \in JobIds : jobs[j].pc \in {"idle", "start", "raised"}
       /\ \A j \in JobIds : jobs[j].pc = "raised" => jobs[j].exc = "OSError"
       /\ ncol = 0
       /\ dpc \in {"submit", "collect", "failed"}
       /\ dpc = "failed" => derr = "OSError"

\* local_search has raised the OSError of a job.
C10_Witness ==
    /\ ~lib_ok
    /\ dpc = "failed"
    /\ derr = "OSError"

\* The vehicles of a row: its maximal runs of customers, in order; cur is
\* the run being read.
RECURSIVE Runs(_, _)
Runs(row, cur) ==
    IF row = <<>> THEN (IF cur = <<>> THEN <<>> ELSE <<cur>>)
    ELSE IF Head(row) = 0
         THEN (IF cur = <<>> THEN <<>> ELSE <<cur>>) \o Runs(Tail(row), <<>>)
         ELSE Runs(Tail(row), Append(cur, Head(row)))

Vehicles(row) == Runs(row, <<>>)

\* A tour that starts and ends with the depot and has a customer.
ClosedTour(tour) ==
    /\ tour[1] = 0
    /\ tour[Len(tour)] = 0
    /\ \E c \in 1..Len(tour) : tour[c] # 0

\* C11: for a tour that starts and ends with the depot and has a subroute
\* with a customer, merge_subroutes(get_subroutes(tour), len(tour)) does not
\* overflow, is a row of the tour's length, and has the tour's vehicles: the
\* same customers in the same vehicles, the vehicles in the same order and
\* the customers in the same order in each.
C11_RoundTrip ==
    (codec.pc = "merged" /\ ClosedTour(codec.tour)) =>
       /\ codec.merged.ok
       /\ Len(codec.merged.val) = Len(codec.tour)
       /\ Vehicles(codec.merged.val) = Vehicles(codec.tour)

\* A closed tour of two vehicles with a repeated depot marker was merged
\* into a row that differs from it.
C11_Witness ==
    /\ codec.pc = "merged"
    /\ ClosedTour(codec.tour)
    /\ Len(Vehicles(codec.tour)) = 2
    /\ codec.merged.ok
    /\ codec.merged.val # codec.tour

\* The column (0-indexed) of the last non-zero entry of a row, -1 if none.
LastNonZero(row) ==
    Max({-1} \cup { c - 1 : c \in { c \in 1..Len(row) : row[c] # 0 } })

\* The last non-zero column of the longest row of new_actions.
Longest == Max({ LastNonZero(buffer[i]) : i \in 1..Len(buffer) })

\* C12: what local_search returns has one row per item, every row is the
\* item's row of new_actions from column 1 to the last non-zero column of
\* the longest row of the batch: all rows have that one length.
C12_UniformTrim ==
    dpc = "returned" =>
       /\ Len(out) = Len(batch)
       /\ \A i \in 1..Len(out) :
             /\ Len(out[i]) = Longest
             /\ out[i] = SubSeq(buffer[i], 2, Longest + 1)

\* A batch of two was returned whose rows end at different columns.
C12_Witness ==
    /\ dpc = "returned"
    /\ Len(batch) = 2
    /\ LastNonZero(buffer[1]) # LastNonZero(buffer[2])

\* The trim step of local_search applied to a matrix.
Retrim(rows) == Slice(rows, Max(NonZeroColumns(rows)))

\* C13: the trim step applied to what local_search returned gives the same
\* matrix.
C13_TrimIdempotent == dpc = "returned" => Retrim(out) = out

\* The sum of the entries of v at the indices of S.
RECURSIVE SumOver(_, _)
SumOver(v, S) ==
    IF S = {} THEN 0
    ELSE LET k == CHOOSE k \in S : TRUE IN v[k] + SumOver(v, S \ {k})

\* C14: whenever the demands of the customers of a route sum to at most the
\* capacity of the instance, the scaled demands of that route sum to at
\* most the capacity handed to the solver (compared in thousandths).
C14_ScalingKeepsFeasible ==
    enc.pc # "instance" =>
       \A S \in SUBSET (2..Len(enc.data.demands)) :
          SumOver(PadDemand(enc.demand), S) <= enc.capacity
             => SumOver(enc.data.demands, S) * 1000 <= enc.data.vehicle_capacity_milli

\* C15: the demand handed to the solver is 1000 times the demand of the
\* instance, node by node, and the capacity handed to the solver is 1000
\* times the capacity of the instance plus an epsilon of less than one unit
\* (compared in thousandths).
C15_ScaledCapacity ==
    enc.pc # "instance" =>
       /\ enc.data.demands = [k \in 1..Len(enc.demand) + 1 |->
                                 1000 * PadDemand(enc.demand)[k]]
       /\ enc.data.vehicle_capacity_milli > 1000 * (1000 * enc.capacity)
       /\ enc.data.vehicle_capacity_milli < 1000 * (1000 * enc.capacity + 1)

\* The work item a worker would take next.
OldestQueued(j) ==
    /\ pool.phase[j] = "queued"
    /\ \A k \in PoolJobs : pool.phase[k] = "queued" => j <= k

Blocked == { j \in PoolJobs : pool.phase[j] = "blocked" }

Ended == dpc \in {"returned", "failed"}

Cities == 1..(Len(td.locs) - 1)

\* How often a node was selected.
TimesSelected(node) == Cardinality({ k \in 1..Len(actions) : actions[k] = node })

\* C18: from reset, under actions the action mask allows, once done is true
\* the agents employed (the non-empty depot-to-depot subtours of the
\* actions) are at most num_agents.
C18_AtMostNumAgents ==
    td.done => Len(Vehicles(actions)) <= td.num_agents

\* An episode of several agents is done and has employed all of them.
C18_Witness ==
    /\ td.done
    /\ td.num_agents >= 2
    /\ Len(Vehicles(actions)) = td.num_agents

\* C19: from reset, under actions the action mask allows, no city is ever
\* selected twice, and done is true exactly from the step at which every
\* city has been selected once.
C19_EachCityOnce ==
    /\ \A c \in Cities : TimesSelected(c) <= 1
    /\ td.done <=> \A c \in Cities : TimesSelected(c) = 1

\* An episode over three cities is done, with a return to the depot
\* between two cities.
C19_Witness ==
    /\ td.done
    /\ Len(td.locs) = 4
    /\ Len(Vehicles(actions)) >= 2

\* The length of an agent's path: depot, its cities in order, depot.
RECURSIVE PathFrom(_, _)
PathFrom(at, cities) ==
    IF cities = <<>> THEN get_distance(td.locs[at + 1], td.locs[1])
    ELSE get_distance(td.locs[at + 1], td.locs[Head(cities) + 1])
         + PathFrom(Head(cities), Tail(cities))

\* The longest path of an agent of the episode.
LongestPath ==
    Max({0} \cup { PathFrom(0, Vehicles(actions)[v]) : v \in 1..Len(Vehicles(actions)) })

\* C20: with cost_type minmax, once done is true the reward of the
\* environment is minus the longest path of an agent, also after further
\* steps with the forced depot action; and so is what _get_reward returns.
C20_RewardIsMinusLongestPath ==
    /\ td.done => td.reward = -LongestPath
    /\ td.result.given => td.result.v = -LongestPath

\* The positions of a tour at which a subroute starts: a depot whose next
\* depot is more than one position away; and that next depot.
NextDepot(tour, i) ==
    CHOOSE j \in (i + 1)..Len(tour) :
       tour[j] = 0 /\ \A c \in (i + 1)..(j - 1) : tour[c] # 0

SubrouteStarts(tour) ==
    { i \in 1..Len(tour) :
         /\ tour[i] = 0
         /\ \E j \in (i + 2)..Len(tour) : tour[j] = 0
         /\ tour[i + 1] # 0 }

\* C21: get_subroutes(tour) has one subroute for each pair of consecutive
\* depot positions (i, j) with j - i > 1, in tour order, equal to
\* tour[i..j]; it has none for consecutive depots.  Every subroute starts
\* and ends with 0, has at least 3 entries and no 0 inside, and a tour of
\* one vehicle (depot, customers, depot) gives exactly one subroute.
C21_Decomposition ==
    codec.pc \in {"subroutes", "merged"} =>
       LET tour == codec.tour
           subs == codec.subroutes
           starts == SubrouteStarts(tour)
       IN /\ Len(subs) = Cardinality(starts)
          /\ \A i \in starts :
                subs[Cardinality({ p \in starts : p < i }) + 1]
                   = SubSeq(tour, i, NextDepot(tour, i))
          /\ \A k \in 1..Len(subs) :
                /\ Len(subs[k]) >= 3
                /\ subs[k][1] = 0
                /\ subs[k][Len(subs[k])] = 0
                /\ \A c \in 2..(Len(subs[k]) - 1) : subs[k][c] # 0
          /\ (/\ Len(tour) >= 3
              /\ tour[1] = 0
              /\ tour[Len(tour)] = 0
              /\ \A c \in 2..(Len(tour) - 1) : tour[c] # 0)
             => subs = <<tour>>

\* A tour with two depots in a row was decomposed into two subroutes.
C21_Witness ==
    /\ codec.pc = "subroutes"
    /\ Len(codec.subroutes) = 2
    /\ \E c \in 1..(Len(codec.tour) - 1) : codec.tour[c] = 0 /\ codec.tour[c + 1] = 0

\* The positions a subroute takes in the merged row: its length without
\* its last entry when it is longer than 2, nothing otherwise.
Taken(r) == IF Len(r) > 2 THEN Len(r) - 1 ELSE 0

\* The positions the first q subroutes of a collection take.
RECURSIVE TakenBy(_, _)
TakenBy(subroutes, q) ==
    IF q = 0 THEN 0 ELSE TakenBy(subroutes, q - 1) + Taken(subroutes[q])

\* C22: when the subroutes fit, merge_subroutes(subroutes, L) returns a row
\* of length L in which every subroute longer than 2 stands without its
\* last entry, right after the subroutes before it, followed by zeros to the
\* end; subroutes of length at most 2 take no position, and an empty
\* collection gives the all-zero row.
C22_MergeLayout ==
    (codec.pc = "merged" /\ TakenBy(codec.subroutes, Len(codec.subroutes)) <= codec.length) =>
       LET subs == codec.subroutes
           row == codec.merged.val
       IN /\ codec.merged.ok
          /\ Len(row) = codec.length
          /\ \A q \in 1..Len(subs) : \A o \in 1..Taken(subs[q]) :
                row[TakenBy(subs, q - 1) + o] = subs[q][o]
          /\ \A c \in (TakenBy(subs, Len(subs)) + 1)..codec.length : row[c] = 0
          /\ subs = <<>> => row = [c \in 1..codec.length |-> 0]

\* A collection of a short subroute and two long ones was merged into a row
\* with room to spare.
C22_Witness ==
    /\ codec.pc = "merged"
    /\ codec.merged.ok
    /\ \E q \in 1..Len(codec.subroutes) : Len(codec.subroutes[q]) > 2
    /\ \E q \in 1..Len(codec.subroutes) : Len(codec.subroutes[q]) <= 2
    /\ TakenBy(codec.subroutes, Len(codec.subroutes)) < codec.length

\* C23: when the subroutes need more than length positions, merge_subroutes
\* raises (a ValueError, which nothing in local_search catches): it returns
\* no row, truncated or not.
C23_OverflowRaises ==
    (codec.pc = "merged" /\ TakenBy(codec.subroutes, Len(codec.subroutes)) > codec.length) =>
       /\ ~codec.merged.ok
       /\ codec.merged.exc = "ValueError"
       /\ codec.merged.val = <<>>

\* A merge whose second subroute did not fit has raised.
C23_Witness ==
    /\ codec.pc = "merged"
    /\ ~codec.merged.ok
    /\ Len(codec.subroutes) = 2
    /\ Taken(codec.subroutes[1]) > 0
    /\ Taken(codec.subroutes[1]) <= codec.length

\* How often customer c stands in the routes of a job result.
RECURSIVE Occurrences(_, _)
Occurrences(routes, c) ==
    IF routes = <<>> THEN 0
    ELSE Cardinality({ k \in 1..Len(Head(routes)) : Head(routes)[k] = c })
         + Occurrences(Tail(routes), c)

\* A job result over the customers 1..n: routes from depot to depot with
\* customers between, every customer at most once.
CustomersAtMostOnce(routes, n) ==
    /\ \A q \in 1..Len(routes) :
          /\ Len(routes[q]) >= 2
          /\ routes[q][1] = 0
          /\ routes[q][Len(routes[q])] = 0
          /\ \A k \in 2..(Len(routes[q]) - 1) : routes[q][k] \in 1..n
    /\ \A c \in 1..n : Occurrences(routes, c) <= 1

\* C24: the routes a job of local_search returns, the original ones or the
\* solver's, with every customer at most once, fit the buffer of width
\* 2 x (number of locations with the depot): merging them does not raise.
C24_BufferWideEnough ==
    \A j \in 1..nsub :
       (/\ jobs[j].pc = "done"
        /\ CustomersAtMostOnce(jobs[j].ret, Len(batch[1].locs) - 1))
       => /\ Len(MergedNodes(jobs[j].ret)) <= worst_seq_len
          /\ merge_subroutes(jobs[j].ret, worst_seq_len).ok
          /\ (dpc = "failed" /\ ncol = j - 1) => derr # "ValueError"

\* A job returned every customer in a route of its own, and its row was
\* written.
C24_Witness ==
    \E j \in 1..ncol :
       /\ jobs[j].pc = "done"
       /\ Len(jobs[j].ret) = Len(batch[1].locs) - 1
       /\ CustomersAtMostOnce(jobs[j].ret, Len(batch[1].locs) - 1)
       /\ Len(MergedNodes(jobs[j].ret)) = 2 * (Len(batch[1].locs) - 1)

\* C25: the file write_routes writes has one line per subroute, in order;
\* line k is "Route #k: " followed by the positive entries of subroute k, in
\* their order, as numbers; no depot marker (0) is written.
C25_RequestFormat ==
    codec.written =>
       LET lines == codec.file.lines
       IN /\ codec.file.exists
          /\ Len(lines) = Len(codec.routes)
          /\ \A k \in 1..Len(lines) :
                /\ lines[k].head = "Route"
                /\ lines[k].k = k
                /\ Len(lines[k].fields) = 1
                /\ \A t \in 1..Len(lines[k].fields[1]) :
                      lines[k].fields[1][t].num /\ lines[k].fields[1][t].val > 0
                /\ TokenValues(lines[k].fields[1])
                      = SelectSeq(codec.routes[k], LAMBDA x : x > 0)

\* Two subroutes with depots and customers were written.
C25_Witness ==
    /\ codec.written
    /\ Len(codec.routes) = 2
    /\ \A k \in 1..2 : Len(codec.routes[k]) >= 3 /\ codec.routes[k][1] = 0
    /\ \A k \in 1..2 : Len(codec.file.lines[k].fields[1]) >= 1

\* The number of lines of the longest leading run of lines that start with
\* Route.
LeadingRun(lines) ==
    Max({ n \in 0..Len(lines) : \A k \in 1..n : lines[k].head = "Route" })

\* A route line with a colon and only numbers after it.
WellFormed(line) ==
    /\ Len(line.fields) >= 1
    /\ \A t \in 1..Len(line.fields[1]) : line.fields[1][t].num

\* C26: for a file whose leading route lines are well formed, read_routes
\* returns without raising, in order, one subroute [0, indices, 0] for each
\* line of the longest leading run of route lines; the first other line (or
\* the end of the file) ends the scan and the lines after it are ignored.
C26_ReadLeadingRun ==
    (/\ codec.pc = "read"
     /\ codec.file.exists
     /\ \A k \in 1..LeadingRun(codec.file.lines) : WellFormed(codec.file.lines[k]))
    => /\ codec.result.ok
       /\ codec.result.val =
             [k \in 1..LeadingRun(codec.file.lines) |->
                 <<0>> \o TokenValues(codec.file.lines[k].fields[1]) \o <<0>>]

\* A file of a route line, a line that is none and another route line was
\* read into one subroute.
C26_Witness ==
    /\ codec.pc = "read"
    /\ codec.file.exists
    /\ Len(codec.file.lines) = 3
    /\ codec.file.lines[2].head # "Route"
    /\ codec.file.lines[3].head = "Route"
    /\ codec.result.ok
    /\ Len(codec.result.val) = 1
    /\ Len(codec.result.val[1]) > 2

\* C27: new_actions changes only when every job of the batch has returned
\* or raised; a row is written by the main thread, once, in index order, from
\* the job that was submitted with the same batch index, and the rows
\* written before stay as they are: no row is written by two jobs.
C27_RowsAfterJoinOnce ==
    [][ /\ buffer' # buffer =>
             /\ nsub = Len(batch)
             /\ \A j \in 1..Len(batch) : jobs[j].pc \in {"done", "raised"}
        /\ (dpc = "collect" /\ buffer' # buffer) =>
             /\ ncol' = ncol + 1
             /\ jobs[ncol + 1].item = ncol + 1
             /\ buffer'[ncol + 1] = merge_subroutes(jobs[ncol + 1].ret, worst_seq_len).val
             /\ \A i \in 1..Len(batch) : i # ncol + 1 => buffer'[i] = buffer[i]
        /\ ncol' # ncol =>
             /\ ncol' = ncol + 1
             /\ \A j \in 1..Len(batch) : jobs[j].pc \in {"done", "raised"}
      ]_vars

\* Both rows of a batch of two were written with different contents.
C27_Witness ==
    /\ Len(batch) = 2
    /\ ncol = 2
    /\ buffer[1] # buffer[2]
    /\ \A i \in 1..2 : \E c \in 1..Len(buffer[i]) : buffer[i][c] # 0

\* C28: whatever the jobs return (the solver's routes, no routes, the
\* original routes), when the solver library loads local_search does not
\* raise, and what it returns is rectangular, also when every merged row is
\* all zeros.
C28_AlwaysRectangular ==
    lib_ok =>
       /\ derr = None
       /\ dpc # "failed"
       /\ dpc = "returned" => \A i \in 1..Len(out) : Len(out[i]) = Len(out[1])

\* The entries of a row that are not the depot, in order.
NonDepot(row) == SelectSeq(row, LAMBDA x : x # 0)

\* C29: column 0 of every row of new_actions is 0, and every entry of a row
\* that is not 0 stands in the returned row, in the same order.
C29_SliceDropsOnlyZeros ==
    /\ dpc \in {"collect", "returned", "failed"} =>
          \A i \in 1..Len(buffer) : buffer[i][1] = 0
    /\ dpc = "returned" =>
          \A i \in 1..Len(buffer) : NonDepot(out[i]) = NonDepot(buffer[i])

\* local_search returned the decoded routes of a job, a row that ends before
\* the longest row of the batch.
C29_Witness ==
    /\ dpc = "returned"
    /\ \E i \in 1..Len(batch) :
          /\ jobs[i].decode = "ok"
          /\ jobs[i].caught = None
          /\ NonDepot(out[i]) # <<>>
          /\ out[i][Len(out[i])] = 0

\* C30: while done is false, agent_idx is between 0 and num_agents - 1 and
\* the depot is not available when the current node is the depot.
C30_AgentIdxInRange ==
    ~td.done =>
       /\ 0 <= td.agent_idx
       /\ td.agent_idx <= td.num_agents - 1
       /\ td.current_node = 0 => ~td.action_mask[1]

====
